---- MODULE Spec2Model ----
(***************************************************************************)
(* A model of cd8875/clinical-ai-assistant: the regex entity extractor's   *)
(* overlap resolution (app/services/entity_extractor.py) and the FAISS     *)
(* backed VectorStore (app/services/vector_store.py).                      *)
(***************************************************************************)
EXTENDS Integers, Sequences, FiniteSets, TLC

VARIABLES
    entities,        \* extract_entities: the candidate list built by the pattern loop
    deduplicated,    \* extract_entities: the list it returns
    ex_pc,           \* extract_entities: "collect" (pattern loop) or "done" (returned)
    vector_store,    \* VectorStore.vector_store: None, or the FAISS store's documents
    metadata_store,  \* VectorStore.metadata_store: report_id -> metadata
    disk_index,      \* the serialized index under vector_db_path
    disk_meta,       \* metadata.pkl under vector_db_path
    ret,             \* the last call on the VectorStore and what it returned
    th,              \* per thread: where its add_report call stands, and its locals
    reports_db,      \* main.py: the in-memory dict report_id -> report
    upload_dir,      \* the files under UPLOAD_DIR
    http             \* the last HTTP request and the response it got

ex_vars == <<entities, deduplicated, ex_pc>>

vs_vars == <<vector_store, metadata_store, disk_index, disk_meta, ret>>

api_vars == <<reports_db, upload_dir, http>>

vars == <<entities, deduplicated, ex_pc,
          vector_store, metadata_store, disk_index, disk_meta, ret, th,
          reports_db, upload_dir, http>>

(***************************************************************************)
(* Bounds of the model.                                                    *)
(***************************************************************************)
\* the longest candidate list the pattern loop builds
MaxCands == 3
\* character offsets of the text run over 0..MaxPos
MaxPos == 2
\* FAISS.from_texts/merge_from are not called once the index holds MaxChunks
MaxChunks == 3
\* the most chunks split_text yields for one content
MaxSplit == 2
\* stands for the k=1000 of get_report_chunks (vector_store.py:119), scaled so
\* that an index of MaxChunks chunks can exceed it
ScanK == 2

(***************************************************************************)
(* entity_extractor.py                                                     *)
(***************************************************************************)
\* ClinicalEntity.confidence, in hundredths: 0.85 is what extract_entities
\* assigns, 1.0 is the model's default
Confidences == {85, 100}

\* the keys of _load_patterns that the model distinguishes
Labels == {"MEDICATION", "LAB_VALUE"}

\* ClinicalEntity, without its text (the matched substring text[start:end])
ClinicalEntity ==
    [start : 0..MaxPos, end : 0..MaxPos, confidence : Confidences, label : Labels]

\* a regex match of a pattern that consumes at least one character
Matches == {e \in ClinicalEntity : e.start < e.end}

\* the sort key of line 65, (e.start, -e.confidence), compared as Python
\* compares tuples: KeyLess(a, b) is key(a) < key(b)
KeyLess(a, b) ==
    \/ a.start < b.start
    \/ a.start = b.start /\ (0 - a.confidence) < (0 - b.confidence)

\* sorted() is stable: e goes after every element whose key is not greater
RECURSIVE InsertSorted(_, _)
InsertSorted(s, e) ==
    IF s = <<>> THEN <<e>>
    ELSE IF KeyLess(e, Head(s)) THEN <<e>> \o s
    ELSE <<Head(s)>> \o InsertSorted(Tail(s), e)

RECURSIVE sorted(_)
sorted(s) ==
    IF s = <<>> THEN <<>>
    ELSE InsertSorted(sorted(SubSeq(s, 1, Len(s) - 1)), s[Len(s)])

\* a mutant of the overlap test: only a later-starting candidate that reaches
\* back into an accepted one is seen as overlapping
OverlapsStartOnly(entity, existing) ==
    entity.start <= existing.start /\ entity.end > existing.start

\* the test of line 71
Overlaps(entity, existing) ==
    entity.start < existing.end /\ entity.end > existing.start

\* the loop of lines 68-76 over the entities still to visit
RECURSIVE DedupLoop(_, _)
DedupLoop(todo, acc) ==
    IF todo = <<>> THEN acc
    ELSE LET entity == Head(todo)
             overlap == \E i \in 1..Len(acc) : Overlaps(entity, acc[i])
         IN  DedupLoop(Tail(todo), IF overlap THEN acc ELSE Append(acc, entity))

\* a mutant of the sort: ties on start are broken by ascending confidence
SortedAscConfidence(s) ==
    LET Flip(e) == [e EXCEPT !.confidence = 0 - e.confidence]
        r == sorted([i \in 1..Len(s) |-> Flip(s[i])])
    IN  [i \in 1..Len(r) |-> Flip(r[i])]

\* sorted_entities of line 65
sorted_entities(s) == sorted(s)

\* MedicalEntityExtractor._deduplicate_entities
_deduplicate_entities(ents) ==
    IF ents = <<>> THEN <<>> ELSE DedupLoop(sorted_entities(ents), <<>>)

(***************************************************************************)
(* vector_store.py: values                                                 *)
(***************************************************************************)
\* report_id arguments
ReportIds == {"A", "B"}

\* chunk texts (page_content) and query texts; a text's embedding is the unit
\* vector of direction text (encode_kwargs normalize_embeddings, line 15)
Texts == {0, 1}

Queries == {0, 2}

\* the embedding of the empty query of get_report_chunks, line 119
EmptyQuery == 0

\* the k arguments of search
Ks == {1, 2}

\* a Python dict with no key
EmptyDict == [key \in {} |-> 0]

\* {**base, **over}: the keys of over win
DictMerge(base, over) ==
    [key \in (DOMAIN base) \cup (DOMAIN over) |->
        IF key \in DOMAIN over THEN over[key] ELSE base[key]]

\* the metadata arguments of add_report: none (or an empty mapping), and a
\* mapping that itself has a "report_id" key
Metadatas == {EmptyDict, [key \in {"report_id"} |-> "B"]}

\* what text_splitter.split_text(content) yields: the content is modelled by
\* its chunk sequence, the empty content by the empty sequence
Contents ==
    UNION {[1..n -> Texts] : n \in 0..MaxSplit}

\* HuggingFaceEmbeddings with normalize_embeddings: a unit vector
Embed(text) ==
    CASE text % 4 = 0 -> <<1, 0>>
      [] text % 4 = 1 -> <<0, 1>>
      [] text % 4 = 2 -> <<0 - 1, 0>>
      [] OTHER        -> <<0, 0 - 1>>

\* the score of similarity_search_with_score: IndexFlatL2's squared L2 distance
L2Distance(u, v) ==
    (u[1] - v[1]) * (u[1] - v[1]) + (u[2] - v[2]) * (u[2] - v[2])

Score(query, doc) == L2Distance(Embed(query), Embed(doc.page_content))

\* self.vector_store is None
NoStore == [is_none |-> TRUE, docs |-> <<>>]

Store(docs) == [is_none |-> FALSE, docs |-> docs]

\* lines 38-46: the metadata of chunk i (0-based) of n; the caller's keys are
\* spread last
chunk_metadata(report_id, i, n, metadata) ==
    DictMerge([report_id |-> report_id, chunk_id |-> i, chunk_total |-> n], metadata)

\* FAISS.from_texts(chunks, embeddings, metadatas): one document per chunk
from_texts(report_id, chunks, metadata) ==
    [i \in 1..Len(chunks) |->
        [page_content |-> chunks[i],
         metadata |-> chunk_metadata(report_id, i - 1, Len(chunks), metadata)]]

\* a mutant of merged: the new index replaces the old one
Replaced(store, new_docs) == Store(new_docs)

\* a mutant of similarity_search_with_score: the first k documents in index
\* order
FirstKInIndexOrder(docs, query, k) ==
    [r \in 1..(IF k < Len(docs) THEN k ELSE Len(docs)) |->
        [doc |-> docs[r], score |-> Score(query, docs[r])]]

\* lines 49-61: the store after the chunks are added
merged(store, new_docs) ==
    IF store.is_none THEN Store(new_docs) ELSE Store(store.docs \o new_docs)

\* similarity_search_with_score(query, k): the k documents of least score,
\* ascending; equal scores are taken in index order
similarity_search_with_score(docs, query, k) ==
    LET n == Len(docs)
        Less(i, j) ==
            \/ Score(query, docs[i]) < Score(query, docs[j])
            \/ Score(query, docs[i]) = Score(query, docs[j]) /\ i < j
        Nth(r) == CHOOSE j \in 1..n : Cardinality({i \in 1..n : Less(i, j)}) = r - 1
    IN  [r \in 1..(IF k < n THEN k ELSE n) |->
            [doc |-> docs[Nth(r)], score |-> Score(query, docs[Nth(r)])]]

\* a mutant of FilterKeeps: no document is dropped
KeepsAll(md, filter_by) == TRUE

\* lines 87-94: no filter, or every key of filter_by equals the document's
FilterKeeps(md, filter_by) ==
    \A key \in DOMAIN filter_by : key \in DOMAIN md /\ md[key] = filter_by[key]

\* the loop of lines 84-101 over the results still to format
RECURSIVE formatted_results(_, _)
formatted_results(results, filter_by) ==
    IF results = <<>> THEN <<>>
    ELSE LET doc == Head(results).doc
             rest == formatted_results(Tail(results), filter_by)
         IN  IF FilterKeeps(doc.metadata, filter_by)
             THEN <<[content |-> doc.page_content,
                     metadata |-> doc.metadata,
                     similarity_score |-> 1 - Head(results).score]>> \o rest
             ELSE rest

\* VectorStore.search
search(store, query, k, filter_by) ==
    IF store.is_none THEN <<>>
    ELSE formatted_results(similarity_search_with_score(store.docs, query, k), filter_by)

\* the filter_by arguments of search: none, and one report_id
Filters == {EmptyDict} \cup {[key \in {"report_id"} |-> r] : r \in ReportIds}

\* the report_ids arguments of search_by_report_ids
ReportIdLists == {<<"A">>, <<"B">>, <<"A", "B">>, <<"A", "C">>}

\* VectorStore.search_by_report_ids
search_by_report_ids(store, query, report_ids, k) ==
    search(store, query, k,
           IF Len(report_ids) = 1 THEN [key \in {"report_id"} |-> report_ids[1]]
           ELSE EmptyDict)

\* chunks.sort(key=chunk_id), stable
RECURSIVE InsertByChunkId(_, _)
InsertByChunkId(s, c) ==
    IF s = <<>> THEN <<c>>
    ELSE IF c.chunk_id < Head(s).chunk_id THEN <<c>> \o s
    ELSE <<Head(s)>> \o InsertByChunkId(Tail(s), c)

RECURSIVE SortByChunkId(_)
SortByChunkId(s) ==
    IF s = <<>> THEN <<>>
    ELSE InsertByChunkId(SortByChunkId(SubSeq(s, 1, Len(s) - 1)), s[Len(s)])

\* lines 121-127: the chunks of report_id among all_docs, in all_docs' order
RECURSIVE CollectChunks(_, _)
CollectChunks(all_docs, report_id) ==
    IF all_docs = <<>> THEN <<>>
    ELSE LET doc == Head(all_docs).doc
             rest == CollectChunks(Tail(all_docs), report_id)
         IN  IF "report_id" \in DOMAIN doc.metadata /\ doc.metadata["report_id"] = report_id
             THEN <<[content |-> doc.page_content, chunk_id |-> doc.metadata["chunk_id"]]>>
                      \o rest
             ELSE rest

\* lines 115-130: the local list chunks once sorted
report_chunks(store, report_id) ==
    IF store.is_none THEN <<>>
    ELSE SortByChunkId(
             CollectChunks(similarity_search_with_score(store.docs, EmptyQuery, ScanK),
                           report_id))

\* VectorStore.get_report_chunks
get_report_chunks(store, report_id) ==
    LET chunks == report_chunks(store, report_id)
    IN  [i \in 1..Len(chunks) |-> chunks[i].content]

\* VectorStore.get_stats
get_stats(store, meta) ==
    IF store.is_none
    THEN [total_reports |-> 0, total_chunks |-> 0, reports |-> {}]
    ELSE [total_reports |-> Cardinality(DOMAIN meta),
          total_chunks |-> Len(store.docs),
          reports |-> DOMAIN meta]

\* a file that was never written, and a file holding data
Missing == [state |-> "missing", data |-> <<>>]

Saved(data) == [state |-> "ok", data |-> data]

\* a file whose write was cut short
Corrupt == [state |-> "corrupt", data |-> <<>>]

(***************************************************************************)
(* vector_store.py: the calls, each run to completion                      *)
(***************************************************************************)
\* VectorStore.__init__ on an empty vector_db_path: _load_vector_store finds
\* nothing
VsInit ==
    /\ vector_store = NoStore
    /\ metadata_store = EmptyDict
    /\ disk_index = Missing
    /\ disk_meta = Missing
    /\ ret = [op |-> "init"]

\* what a write that raised leaves of the file: the old file, or a cut one
AfterFailedWrite(old) == {old, Corrupt}

\* VectorStore.add_report. fault is where the call raises, if it does:
\* "embed" in FAISS.from_texts, "save_index" in save_local, "save_meta" in the
\* write of metadata.pkl. FAISS.from_texts raises by itself on no chunks.
add_report(report_id, chunks, metadata, fault) ==
    LET new_docs == from_texts(report_id, chunks, metadata)
        store == merged(vector_store, new_docs)
        meta == DictMerge(metadata_store, [key \in {report_id} |-> metadata])
        call == [op |-> "add_report", report_id |-> report_id,
                 chunks |-> chunks, metadata |-> metadata]
        raised == DictMerge(call, [raised |-> TRUE])
    IN  /\ Len(vector_store.docs) + Len(chunks) <= MaxChunks
        /\ IF chunks = <<>> \/ fault = "embed"
           THEN /\ ret' = raised
                /\ UNCHANGED <<vector_store, metadata_store, disk_index, disk_meta>>
           ELSE /\ vector_store' = store
                /\ metadata_store' = meta
                /\ CASE fault = "save_index" ->
                          /\ disk_index' \in AfterFailedWrite(disk_index)
                          /\ disk_meta' = disk_meta
                          /\ ret' = raised
                     [] fault = "save_meta" ->
                          /\ disk_index' = Saved(store.docs)
                          /\ disk_meta' \in AfterFailedWrite(disk_meta)
                          /\ ret' = raised
                     [] OTHER ->
                          /\ disk_index' = Saved(store.docs)
                          /\ disk_meta' = Saved(meta)
                          /\ ret' = DictMerge(call,
                                 [raised |-> FALSE,
                                  result |-> [report_id |-> report_id,
                                              chunks_added |-> Len(chunks),
                                              status |-> "success"]])

\* _save_vector_store, lines 158-168, when no write fails
saved_index(store, old) == IF store.is_none THEN old ELSE Saved(store.docs)

\* a mutant of delete_report: everything is saved but the entry stays
DeleteReportKeepsEntry(report_id) ==
    IF report_id \in DOMAIN metadata_store
    THEN /\ disk_index' = IF vector_store.is_none THEN disk_index
                                                 ELSE Saved(vector_store.docs)
         /\ disk_meta' = Saved(metadata_store)
         /\ ret' = [op |-> "delete_report", report_id |-> report_id,
                    result |-> "marked_for_deletion"]
         /\ UNCHANGED <<vector_store, metadata_store>>
    ELSE /\ ret' = [op |-> "delete_report", report_id |-> report_id,
                    result |-> "not_found"]
         /\ UNCHANGED <<vector_store, metadata_store, disk_index, disk_meta>>

\* a mutant of delete_report: the entry is removed but nothing is saved
DeleteReportNoSave(report_id) ==
    IF report_id \in DOMAIN metadata_store
    THEN /\ metadata_store' =
                [key \in (DOMAIN metadata_store) \ {report_id} |-> metadata_store[key]]
         /\ ret' = [op |-> "delete_report", report_id |-> report_id,
                    result |-> "marked_for_deletion"]
         /\ UNCHANGED <<vector_store, disk_index, disk_meta>>
    ELSE /\ ret' = [op |-> "delete_report", report_id |-> report_id,
                    result |-> "not_found"]
         /\ UNCHANGED <<vector_store, metadata_store, disk_index, disk_meta>>

\* VectorStore.delete_report
delete_report(report_id) ==
    IF report_id \in DOMAIN metadata_store
    THEN LET meta == [key \in (DOMAIN metadata_store) \ {report_id} |-> metadata_store[key]]
         IN  /\ metadata_store' = meta
             /\ disk_index' = saved_index(vector_store, disk_index)
             /\ disk_meta' = Saved(meta)
             /\ ret' = [op |-> "delete_report", report_id |-> report_id,
                        result |-> "marked_for_deletion"]
             /\ UNCHANGED vector_store
    ELSE /\ ret' = [op |-> "delete_report", report_id |-> report_id,
                    result |-> "not_found"]
         /\ UNCHANGED <<vector_store, metadata_store, disk_index, disk_meta>>

\* VectorStore._load_vector_store on the fields __init__ has just set (None and
\* {}): FAISS.load_local raises on a missing or unreadable index, pickle.load
\* on an unreadable metadata.pkl, and the except clause resets vector_store only
_load_vector_store(index_file, meta_file) ==
    IF index_file.state # "ok"
    THEN [vector_store |-> NoStore, metadata_store |-> EmptyDict]
    ELSE CASE meta_file.state = "missing" ->
                [vector_store |-> Store(index_file.data), metadata_store |-> EmptyDict]
           [] meta_file.state = "ok" ->
                [vector_store |-> Store(index_file.data), metadata_store |-> meta_file.data]
           [] OTHER ->
                [vector_store |-> NoStore, metadata_store |-> EmptyDict]

Faults == {"none", "embed", "save_index", "save_meta"}

\* the process ends and a new one constructs the VectorStore, lines 11-30
Restart ==
    /\ LET loaded == _load_vector_store(disk_index, disk_meta)
       IN  /\ vector_store' = loaded.vector_store
           /\ metadata_store' = loaded.metadata_store
    /\ ret' = [op |-> "init"]
    /\ UNCHANGED <<disk_index, disk_meta>>
    /\ UNCHANGED <<ex_vars, th, api_vars>>

\* a call of add_report that may raise
AddReport ==
    /\ \E report_id \in ReportIds, chunks \in Contents,
          metadata \in Metadatas, fault \in Faults :
            add_report(report_id, chunks, metadata, fault)
    /\ UNCHANGED <<ex_vars, th, api_vars>>

\* a call of add_report without metadata in which neither the embedding
\* provider nor the disk fails
AddReportNoFault ==
    /\ \E report_id \in ReportIds, chunks \in Contents :
            add_report(report_id, chunks, EmptyDict, "none")
    /\ UNCHANGED <<ex_vars, th, api_vars>>

\* a call of add_report without metadata, with the faults
AddReportNoMetadata ==
    /\ \E report_id \in ReportIds, chunks \in Contents, fault \in Faults :
            add_report(report_id, chunks, EmptyDict, fault)
    /\ UNCHANGED <<ex_vars, th, api_vars>>

\* a call of delete_report
DeleteReport ==
    /\ \E report_id \in ReportIds : delete_report(report_id)
    /\ UNCHANGED <<ex_vars, th, api_vars>>

\* a call of get_stats
GetStats ==
    /\ ret' = [op |-> "get_stats", result |-> get_stats(vector_store, metadata_store)]
    /\ UNCHANGED <<vector_store, metadata_store, disk_index, disk_meta>>
    /\ UNCHANGED <<ex_vars, th, api_vars>>

\* a call of VectorStore.search
Search ==
    /\ \E query \in Queries, k \in Ks, filter_by \in Filters :
          ret' = [op |-> "search", query |-> query, k |-> k, filter_by |-> filter_by,
                  result |-> search(vector_store, query, k, filter_by)]
    /\ UNCHANGED <<vector_store, metadata_store, disk_index, disk_meta>>
    /\ UNCHANGED <<ex_vars, th, api_vars>>

\* a call of VectorStore.search_by_report_ids
SearchByReportIds ==
    /\ \E query \in Queries, k \in Ks, report_ids \in ReportIdLists :
          ret' = [op |-> "search_by_report_ids", query |-> query, k |-> k,
                  report_ids |-> report_ids,
                  result |-> search_by_report_ids(vector_store, query, report_ids, k)]
    /\ UNCHANGED <<vector_store, metadata_store, disk_index, disk_meta>>
    /\ UNCHANGED <<ex_vars, th, api_vars>>

\* a call of VectorStore.get_report_chunks
GetReportChunks ==
    /\ \E report_id \in ReportIds :
          ret' = [op |-> "get_report_chunks", report_id |-> report_id,
                  chunks |-> report_chunks(vector_store, report_id),
                  result |-> get_report_chunks(vector_store, report_id)]
    /\ UNCHANGED <<vector_store, metadata_store, disk_index, disk_meta>>
    /\ UNCHANGED <<ex_vars, th, api_vars>>

(***************************************************************************)
(* qa_engine.py: QAEngine.answer_question over the VectorStore.            *)
(***************************************************************************)
\* the question arguments, embedded like the queries of search
Questions == Queries

\* the report_ids arguments: None or an empty list, and lists of ids
ReportIdOptions == {<<>>} \cup ReportIdLists

\* lines 27-30: one scoped search per id, the results appended in id order
RECURSIVE docs_of_each(_, _, _, _)
docs_of_each(store, question, report_ids, k) ==
    IF report_ids = <<>> THEN <<>>
    ELSE search_by_report_ids(store, question, <<Head(report_ids)>>, k)
            \o docs_of_each(store, question, Tail(report_ids), k)

\* lines 26-32: the retrieval of answer_question
relevant_docs(store, question, report_ids, k) ==
    IF report_ids # <<>>
    THEN docs_of_each(store, question, report_ids, k)
    ELSE search(store, question, k, EmptyDict)

\* doc['metadata'].get(key, default)
MetadataGet(md, key, default) ==
    IF key \in DOMAIN md THEN md[key] ELSE default

\* QAEngine._prepare_context: one block per document, numbered by
\* enumerate(documents, 1); the relevance is printed with two decimals, here
\* in hundredths
_prepare_context(documents) ==
    [i \in 1..Len(documents) |->
        [source |-> i,
         report_id |-> MetadataGet(documents[i].metadata, "report_id", "Unknown"),
         relevance |-> 100 * documents[i].similarity_score,
         content |-> documents[i].content]]

\* QAEngine._format_sources; the contents of the model are shorter than the
\* 200 characters of an excerpt
_format_sources(documents) ==
    [i \in 1..Len(documents) |->
        [report_id |-> MetadataGet(documents[i].metadata, "report_id", "None"),
         chunk_id |-> MetadataGet(documents[i].metadata, "chunk_id", "None"),
         similarity |-> documents[i].similarity_score,
         excerpt |-> documents[i].content]]

\* sum(doc['similarity_score'] for doc in relevant_docs)
RECURSIVE SumSimilarity(_)
SumSimilarity(documents) ==
    IF documents = <<>> THEN 0
    ELSE Head(documents).similarity_score + SumSimilarity(Tail(documents))

\* round(total / n, 2) in hundredths, n > 0; with at most four integer
\* similarities no quotient lies halfway between two hundredths
RoundedAverage(total, n) == (200 * total + n) \div (2 * n)

\* the answer when nothing was retrieved, and the answer the LLM gives
NoInformation == "no_relevant_information"

LlmAnswer == "llm_answer"

\* a mutant of answer_question: the test of line 34 is missing, and the
\* average of no similarities divides by zero after the LLM was invoked
AnswerWithoutEmptyTest(store, question, report_ids, k, llm_fails) ==
    LET docs == relevant_docs(store, question, report_ids, k)
    IN  IF llm_fails \/ docs = <<>>
        THEN [raised |-> TRUE, llm_invoked |-> TRUE, relevant_docs |-> docs,
              context |-> _prepare_context(docs)]
        ELSE [raised |-> FALSE, llm_invoked |-> TRUE, relevant_docs |-> docs,
              context |-> _prepare_context(docs),
              result |-> [answer |-> LlmAnswer,
                          sources |-> _format_sources(docs),
                          confidence |-> RoundedAverage(SumSimilarity(docs), Len(docs)),
                          num_sources |-> Len(docs)]]

\* QAEngine.answer_question: what it returns (result, with the confidence in
\* hundredths), whether it raised, whether llm.invoke was called, and the
\* documents and context it worked on; llm_fails is whether llm.invoke raises
answer_question(store, question, report_ids, k, llm_fails) ==
    LET docs == relevant_docs(store, question, report_ids, k)
    IN  IF docs = <<>>
        THEN [raised |-> FALSE, llm_invoked |-> FALSE, relevant_docs |-> docs,
              context |-> <<>>,
              result |-> [answer |-> NoInformation, sources |-> <<>>, confidence |-> 0]]
        ELSE IF llm_fails
        THEN [raised |-> TRUE, llm_invoked |-> TRUE, relevant_docs |-> docs,
              context |-> _prepare_context(docs)]
        ELSE [raised |-> FALSE, llm_invoked |-> TRUE, relevant_docs |-> docs,
              context |-> _prepare_context(docs),
              result |-> [answer |-> LlmAnswer,
                          sources |-> _format_sources(docs),
                          confidence |-> RoundedAverage(SumSimilarity(docs), Len(docs)),
                          num_sources |-> Len(docs)]]

\* a call of QAEngine.answer_question
AnswerQuestion ==
    /\ \E question \in Questions, report_ids \in ReportIdOptions, k \in Ks,
          llm_fails \in BOOLEAN :
          ret' = [op |-> "answer_question", question |-> question,
                  report_ids |-> report_ids, k |-> k, llm_fails |-> llm_fails,
                  out |-> answer_question(vector_store, question, report_ids, k,
                                          llm_fails)]
    /\ UNCHANGED <<vector_store, metadata_store, disk_index, disk_meta>>
    /\ UNCHANGED <<ex_vars, th, api_vars>>

(***************************************************************************)
(* vector_store.py: add_report statement by statement, for calls made from *)
(* several threads on one VectorStore. The class takes no lock.            *)
(***************************************************************************)
Threads == {1, 2}

\* the report each thread adds
ThreadReport(t) == IF t = 1 THEN "A" ELSE "B"

\* the contents the threads add: chunks of one text
ThreadContents == {[i \in 1..n |-> 0] : n \in 1..MaxSplit}

\* a thread that has not called add_report
Idle == [pc |-> "idle", report_id |-> "", chunks |-> <<>>]

ThInit == th = [t \in Threads |-> Idle]

\* lines 35-46: split_text and the chunks' metadata, all local
ThBegin(t) ==
    /\ th[t].pc = "idle"
    /\ \E chunks \in ThreadContents :
          th' = [th EXCEPT ![t] = [pc |-> "line49", report_id |-> ThreadReport(t),
                                   chunks |-> chunks]]
    /\ UNCHANGED <<vector_store, metadata_store, disk_index, disk_meta, ret>>
    /\ UNCHANGED <<ex_vars, api_vars>>

\* line 49: the test self.vector_store is None
ThTestNone(t) ==
    /\ th[t].pc = "line49"
    /\ th' = [th EXCEPT ![t].pc = IF vector_store.is_none THEN "line50" ELSE "line56"]
    /\ UNCHANGED <<vector_store, metadata_store, disk_index, disk_meta, ret>>
    /\ UNCHANGED <<ex_vars, api_vars>>

\* lines 50-54: self.vector_store = FAISS.from_texts(...)
ThAssignStore(t) ==
    /\ th[t].pc = "line50"
    /\ vector_store' = Store(from_texts(th[t].report_id, th[t].chunks, EmptyDict))
    /\ th' = [th EXCEPT ![t].pc = "line64"]
    /\ UNCHANGED <<metadata_store, disk_index, disk_meta, ret>>
    /\ UNCHANGED <<ex_vars, api_vars>>

\* lines 56-61: new_vectors = FAISS.from_texts(...), then merge_from, taken as
\* one step
ThMergeStore(t) ==
    /\ th[t].pc = "line56"
    /\ vector_store' =
           merged(vector_store, from_texts(th[t].report_id, th[t].chunks, EmptyDict))
    /\ th' = [th EXCEPT ![t].pc = "line64"]
    /\ UNCHANGED <<metadata_store, disk_index, disk_meta, ret>>
    /\ UNCHANGED <<ex_vars, api_vars>>

\* line 64: self.metadata_store[report_id] = metadata or {}
ThStoreMetadata(t) ==
    /\ th[t].pc = "line64"
    /\ metadata_store' =
           DictMerge(metadata_store, [key \in {th[t].report_id} |-> EmptyDict])
    /\ th' = [th EXCEPT ![t].pc = "line163"]
    /\ UNCHANGED <<vector_store, disk_index, disk_meta, ret>>
    /\ UNCHANGED <<ex_vars, api_vars>>

\* lines 160-163 of _save_vector_store: save_local
ThSaveIndex(t) ==
    /\ th[t].pc = "line163"
    /\ disk_index' = saved_index(vector_store, disk_index)
    /\ th' = [th EXCEPT ![t].pc = "line168"]
    /\ UNCHANGED <<vector_store, metadata_store, disk_meta, ret>>
    /\ UNCHANGED <<ex_vars, api_vars>>

\* lines 166-168 of _save_vector_store: pickle.dump, then add_report returns
ThSaveMetadata(t) ==
    /\ th[t].pc = "line168"
    /\ disk_meta' = Saved(metadata_store)
    /\ th' = [th EXCEPT ![t].pc = "done"]
    /\ UNCHANGED <<vector_store, metadata_store, disk_index, ret>>
    /\ UNCHANGED <<ex_vars, api_vars>>

\* a call of get_stats from another thread, taken as one step
ThGetStats ==
    /\ ret' = [op |-> "get_stats", result |-> get_stats(vector_store, metadata_store)]
    /\ UNCHANGED <<vector_store, metadata_store, disk_index, disk_meta, th>>
    /\ UNCHANGED <<ex_vars, api_vars>>

ConcNext ==
    \/ \E t \in Threads : ThBegin(t)
    \/ \E t \in Threads : ThTestNone(t)
    \/ \E t \in Threads : ThAssignStore(t)
    \/ \E t \in Threads : ThMergeStore(t)
    \/ \E t \in Threads : ThStoreMetadata(t)
    \/ \E t \in Threads : ThSaveIndex(t)
    \/ \E t \in Threads : ThSaveMetadata(t)
    \/ ThGetStats

(***************************************************************************)
(* entity_extractor.py: extract_entities                                   *)
(***************************************************************************)
ExInit ==
    /\ entities = <<>>
    /\ deduplicated = <<>>
    /\ ex_pc = "collect"

\* one pass of the innermost loop of extract_entities: a match is appended
ExAppendMatch ==
    /\ ex_pc = "collect"
    /\ Len(entities) < MaxCands
    /\ \E e \in Matches : entities' = Append(entities, e)
    /\ UNCHANGED <<deduplicated, ex_pc>>
    /\ UNCHANGED <<vs_vars, th, api_vars>>

\* lines 57-59: the candidates are deduplicated and returned
ExDeduplicate ==
    /\ ex_pc = "collect"
    /\ deduplicated' = _deduplicate_entities(entities)
    /\ ex_pc' = "done"
    /\ UNCHANGED entities
    /\ UNCHANGED <<vs_vars, th, api_vars>>

ExNext == ExAppendMatch \/ ExDeduplicate

(***************************************************************************)
(* main.py: the HTTP handlers over reports_db, UPLOAD_DIR and the           *)
(* VectorStore. Each handler runs to completion.                           *)
(***************************************************************************)
\* the names of the uploaded files
Filenames == {"report.pdf", "notes.TXT", "scan.exe", "README"}

\* os.path.splitext(file.filename)[1]
splitext_ext(filename) ==
    CASE filename = "report.pdf" -> ".pdf"
      [] filename = "notes.TXT"  -> ".TXT"
      [] filename = "scan.exe"   -> ".exe"
      [] OTHER                   -> ""

\* str.lower on the extensions
lower(ext) == IF ext = ".TXT" THEN ".txt" ELSE ext

\* line 65
allowed_extensions == {".pdf", ".docx", ".txt"}

\* line 66
file_ext_of(filename) == lower(splitext_ext(filename))

\* the report ids that occur anywhere in memory or on disk; uuid4 gives none
\* of them
RECURSIVE IdsOfDocs(_)
IdsOfDocs(docs) ==
    IF docs = <<>> THEN {}
    ELSE {Head(docs).metadata["report_id"]} \cup IdsOfDocs(Tail(docs))

UsedIds ==
    (DOMAIN reports_db) \cup (DOMAIN metadata_store) \cup IdsOfDocs(vector_store.docs)
        \cup {f[1] : f \in upload_dir}
        \cup (IF disk_meta.state = "ok" THEN DOMAIN disk_meta.data ELSE {})
        \cup (IF disk_index.state = "ok" THEN IdsOfDocs(disk_index.data) ELSE {})

\* lines 85-87: the metadata handed to add_report; the upload time is not
\* distinguished
upload_metadata(filename) == [filename |-> filename, upload_time |-> 0]

\* what DocumentParser.parse_document does with the saved file
ParseOutcomes == {"parsed", "raises"}

ApiInit ==
    /\ reports_db = EmptyDict
    /\ upload_dir = {}
    /\ http = [op |-> "start"]

\* the exceptions raised inside the try block of upload_report
HTTPException(status_code) == [type |-> "HTTPException", status_code |-> status_code]

ValueError == [type |-> "ValueError"]

\* lines 109-110: except Exception catches every exception of the block, the
\* HTTPException of line 69 included, and raises HTTPException(500)
ExceptionStatus(e) == HTTPException(500).status_code

\* POST /upload, lines 60-110
UploadReport ==
    \E filename \in Filenames :
        LET file_ext == file_ext_of(filename)
        IN  IF file_ext \notin allowed_extensions
            THEN /\ http' = [op |-> "upload", filename |-> filename,
                             status |-> ExceptionStatus(HTTPException(400))]
                 /\ UNCHANGED <<reports_db, upload_dir, vs_vars>>
                 /\ UNCHANGED <<ex_vars, th>>
            ELSE \E report_id \in ReportIds \ UsedIds, parse \in ParseOutcomes :
                    LET file_path == <<report_id, file_ext>>
                    IN  /\ upload_dir' = upload_dir \cup {file_path}
                        /\ IF parse = "raises"
                           THEN /\ http' = [op |-> "upload", filename |-> filename,
                                            status |-> ExceptionStatus(ValueError)]
                                /\ UNCHANGED <<reports_db, vs_vars>>
                           ELSE \E chunks \in Contents, fault \in Faults :
                                   /\ add_report(report_id, chunks,
                                                 upload_metadata(filename), fault)
                                   /\ IF ret'.raised
                                      THEN /\ http' = [op |-> "upload",
                                                       filename |-> filename,
                                                       status |-> ExceptionStatus(ValueError)]
                                           /\ UNCHANGED reports_db
                                      ELSE /\ reports_db' =
                                                DictMerge(reports_db,
                                                    [key \in {report_id} |->
                                                        [id |-> report_id,
                                                         filename |-> filename,
                                                         content |-> chunks,
                                                         metadata |-> upload_metadata(filename),
                                                         file_path |-> file_path]])
                                           /\ http' = [op |-> "upload",
                                                       filename |-> filename,
                                                       status |-> 200,
                                                       report_id |-> report_id]
                        /\ UNCHANGED <<ex_vars, th>>

\* DELETE /reports/{report_id}, lines 203-219
DeleteReportRequest ==
    \E report_id \in ReportIds :
        IF report_id \notin DOMAIN reports_db
        THEN /\ http' = [op |-> "delete", status |-> 404, report_id |-> report_id]
             /\ UNCHANGED <<reports_db, upload_dir, vs_vars>>
             /\ UNCHANGED <<ex_vars, th>>
        ELSE /\ reports_db' =
                  [key \in (DOMAIN reports_db) \ {report_id} |-> reports_db[key]]
             /\ upload_dir' = upload_dir \ {reports_db[report_id].file_path}
             /\ delete_report(report_id)
             /\ http' = [op |-> "delete", status |-> 200, report_id |-> report_id]
             /\ UNCHANGED <<ex_vars, th>>

\* GET /reports, lines 175-186
ListReports ==
    /\ http' = [op |-> "reports", status |-> 200,
                reports |-> DOMAIN reports_db,
                total |-> Cardinality(DOMAIN reports_db)]
    /\ UNCHANGED <<reports_db, upload_dir, vs_vars>>
    /\ UNCHANGED <<ex_vars, th>>

\* GET /stats, lines 247-256
GetStatistics ==
    /\ http' = [op |-> "stats", status |-> 200,
                total_reports |-> Cardinality(DOMAIN reports_db),
                vector_store |-> get_stats(vector_store, metadata_store)]
    /\ UNCHANGED <<reports_db, upload_dir, vs_vars>>
    /\ UNCHANGED <<ex_vars, th>>

\* the process ends and main.py is loaded again, lines 39-49: a new
\* VectorStore reads the files, reports_db starts empty, UPLOAD_DIR is kept
ProcessRestart ==
    /\ LET loaded == _load_vector_store(disk_index, disk_meta)
       IN  /\ vector_store' = loaded.vector_store
           /\ metadata_store' = loaded.metadata_store
    /\ ret' = [op |-> "init"]
    /\ reports_db' = EmptyDict
    /\ http' = [op |-> "start"]
    /\ UNCHANGED <<disk_index, disk_meta, upload_dir>>
    /\ UNCHANGED <<ex_vars, th>>

\* all components as constructed
Init == VsInit /\ ExInit /\ ThInit /\ ApiInit

SpecExtract == Init /\ [][ExNext]_vars

(***************************************************************************)
(* The VectorStore under calls that each run to completion.                *)
(***************************************************************************)
\* inserts, deletes and statistics, with embedding and disk faults
StoreNext ==
    \/ AddReport
    \/ DeleteReport
    \/ GetStats

SpecStore == Init /\ [][StoreNext]_vars

\* inserts, deletes and statistics with the faults, and restarts of the process
DurableNext ==
    \/ AddReportNoMetadata
    \/ DeleteReport
    \/ GetStats
    \/ Restart

SpecDurable == Init /\ [][DurableNext]_vars

\* inserts and deletes that do not fault, and the queries
QueryNext ==
    \/ AddReportNoFault
    \/ DeleteReport
    \/ Search
    \/ SearchByReportIds
    \/ GetReportChunks

SpecQuery == Init /\ [][QueryNext]_vars

\* inserts that do not fault, and questions
QANext ==
    \/ AddReportNoFault
    \/ AnswerQuestion

SpecQA == Init /\ [][QANext]_vars

\* the requests of the HTTP layer, and restarts of the process
ApiNext ==
    \/ UploadReport
    \/ DeleteReportRequest
    \/ ListReports
    \/ GetStatistics
    \/ ProcessRestart

SpecApi == Init /\ [][ApiNext]_vars

\* two threads that each add one report, and a reader of the statistics
SpecConc == Init /\ [][ConcNext]_vars

(***************************************************************************)
(* Claims about the entity extractor, checked under SpecExtract.           *)
(***************************************************************************)
\* the half-open intervals [a.start, a.end) and [b.start, b.end) share an offset
Intersect(a, b) ==
    \E p \in a.start..(a.end - 1) : b.start <= p /\ p < b.end

\* C1: the list extract_entities returns holds no two distinct entities whose
\* half-open intervals [start, end) intersect, whatever the candidates were
C1_NoOverlap ==
    ex_pc = "done" =>
        \A i, j \in 1..Len(deduplicated) :
            i # j => ~Intersect(deduplicated[i], deduplicated[j])

\* C1's case: three candidates, one of them discarded for overlapping a kept one
C1_Witness ==
    /\ ex_pc = "done"
    /\ Len(entities) = 3
    /\ Len(deduplicated) = 2
    /\ \E i, j \in 1..3 : i # j /\ Intersect(entities[i], entities[j])

\* the reference policy's order on the candidates' positions: ascending start,
\* then descending confidence, then the order the candidates came in
RefBefore(c, i, j) ==
    \/ c[i].start < c[j].start
    \/ c[i].start = c[j].start /\ c[i].confidence > c[j].confidence
    \/ c[i].start = c[j].start /\ c[i].confidence = c[j].confidence /\ i < j

\* the positions the reference policy accepts: a candidate is accepted exactly
\* when it intersects no accepted candidate that comes before it
RefAccepted(c) ==
    CHOOSE A \in SUBSET (1..Len(c)) :
        \A i \in 1..Len(c) :
            i \in A <=> ~\E j \in A : RefBefore(c, j, i) /\ Intersect(c[i], c[j])

\* the accepted candidates in the reference order
RefResult(c) ==
    LET A == RefAccepted(c)
        Rank(i) == Cardinality({j \in A : RefBefore(c, j, i)}) + 1
    IN  [k \in 1..Cardinality(A) |-> c[CHOOSE i \in A : Rank(i) = k]]

\* Scenario C of the specification: "aspirin" at [10, 17) and a longer match
\* at [8, 20), both of confidence 0.85
ScenarioC_aspirin ==
    [start |-> 10, end |-> 17, confidence |-> 85, label |-> "MEDICATION"]

ScenarioC_longer ==
    [start |-> 8, end |-> 20, confidence |-> 85, label |-> "LAB_VALUE"]

\* C2: _deduplicate_entities equals the reference greedy policy (candidates by
\* ascending start, ties by descending confidence, a candidate accepted exactly
\* when it overlaps no accepted one), and in Scenario C keeps the start=8 match
C2_GreedyReference ==
    /\ ex_pc = "done" => deduplicated = RefResult(entities)
    /\ _deduplicate_entities(<<ScenarioC_aspirin, ScenarioC_longer>>)
           = <<ScenarioC_longer>>

\* C2's case: two candidates of one start, the later one of higher confidence
\* and kept, and a third candidate
C2_Witness ==
    /\ ex_pc = "done"
    /\ Len(entities) = 3
    /\ entities[1].start = entities[2].start
    /\ entities[1].confidence < entities[2].confidence
    /\ entities[1].end # entities[2].end
    /\ deduplicated[1] = entities[2]

(***************************************************************************)
(* Claims about the queries, checked under SpecQuery.                      *)
(***************************************************************************)
\* the positions of the index whose metadata matches every pair of filter_by
MatchingDocs(filter_by) ==
    {i \in 1..Len(vector_store.docs) :
        \A key \in DOMAIN filter_by :
            /\ key \in DOMAIN vector_store.docs[i].metadata
            /\ vector_store.docs[i].metadata[key] = filter_by[key]}

\* the similarity, 1 - squared distance, of the document at position i
SimilarityOf(query, i) ==
    1 - L2Distance(Embed(query), Embed(vector_store.docs[i].page_content))

\* the j-th highest similarity among the positions of M
BestSimilarity(query, M, j) ==
    CHOOSE v \in {SimilarityOf(query, i) : i \in M} :
        /\ Cardinality({i \in M : SimilarityOf(query, i) > v}) < j
        /\ Cardinality({i \in M : SimilarityOf(query, i) >= v}) >= j

\* C3: search(query, k, f) returns the k highest-similarity chunks among those
\* matching f (all of them when fewer than k match), not only the matching
\* members of the unfiltered top k
C3_TopKOfMatching ==
    ret.op = "search" =>
        LET M == MatchingDocs(ret.filter_by)
            n == IF ret.k < Cardinality(M) THEN ret.k ELSE Cardinality(M)
        IN  /\ Len(ret.result) = n
            /\ \A j \in 1..Len(ret.result) : j <= n =>
                   ret.result[j].similarity_score = BestSimilarity(ret.query, M, j)

\* C3's failing case without equal scores: two chunks at different distances
\* from the query, k = 1, the farther one matches the filter, nothing returned
C3_Witness ==
    /\ ret.op = "search"
    /\ ret.k = 1
    /\ Len(vector_store.docs) = 2
    /\ SimilarityOf(ret.query, 1) # SimilarityOf(ret.query, 2)
    /\ MatchingDocs(ret.filter_by) # {}
    /\ ret.result = <<>>

\* C4: search_by_report_ids with more than one id returns only chunks whose
\* report_id is one of the ids given
C4_UnionOfRequestedIds ==
    (ret.op = "search_by_report_ids" /\ Len(ret.report_ids) > 1) =>
        \A j \in 1..Len(ret.result) :
            \E i \in 1..Len(ret.report_ids) :
                ret.result[j].metadata["report_id"] = ret.report_ids[i]

\* the positions of the index that hold a chunk of report_id
ChunksOf(report_id) == MatchingDocs([key \in {"report_id"} |-> report_id])

\* C5: whatever the number of chunks stored, get_report_chunks(d) returns every
\* stored chunk whose report_id is d, and the empty list for an unknown id
C5_EveryChunkOfReport ==
    ret.op = "get_report_chunks" =>
        \A text \in Texts :
            Cardinality({j \in 1..Len(ret.result) : ret.result[j] = text})
              = Cardinality({i \in ChunksOf(ret.report_id) :
                                vector_store.docs[i].page_content = text})

\* C5's failing case with every report inserted once: the index holds more
\* than ScanK chunks and a chunk of the report asked for is not returned
C5_Witness ==
    /\ ret.op = "get_report_chunks"
    /\ \A i, j \in 1..Len(vector_store.docs) :
           (i # j /\ vector_store.docs[i].metadata["report_id"]
                      = vector_store.docs[j].metadata["report_id"])
             => vector_store.docs[i].metadata["chunk_id"]
                  # vector_store.docs[j].metadata["chunk_id"]
    /\ Len(vector_store.docs) > ScanK
    /\ Len(ret.result) < Cardinality(ChunksOf(ret.report_id))

\* C6: after any inserts and deletes, get_report_chunks(d) returns chunks in
\* strictly increasing chunk_id order, each chunk_id below its chunk_total
C6_StrictChunkOrder ==
    ret.op = "get_report_chunks" =>
        /\ \A i, j \in 1..Len(ret.chunks) :
               i < j => ret.chunks[i].chunk_id < ret.chunks[j].chunk_id
        /\ \A i \in ChunksOf(ret.report_id) :
               vector_store.docs[i].metadata["chunk_id"]
                 < vector_store.docs[i].metadata["chunk_total"]

(***************************************************************************)
(* Claims about inserts, checked under SpecStore.                          *)
(***************************************************************************)
\* C7: every chunk an add_report call adds carries the call's report_id, its
\* 0-based position as chunk_id and the call's chunk count as chunk_total,
\* which is also the chunks_added returned, whatever metadata the caller gave
C7_ChunkFields ==
    (ret.op = "add_report" /\ ~ret.raised) =>
        LET n == Len(ret.chunks)
            base == Len(vector_store.docs) - n
        IN  /\ ret.result.chunks_added = n
            /\ \A i \in 1..n :
                   LET md == vector_store.docs[base + i].metadata
                   IN  /\ md["report_id"] = ret.report_id
                       /\ md["chunk_id"] = i - 1
                       /\ md["chunk_total"] = n

\* C8: an add_report call that raises commits nothing: the index, the metadata
\* map and both persisted files are as before the call, and the files are
\* both absent or both readable
C8_AllOrNothing ==
    [][(ret'.op = "add_report" /\ ret'.raised) =>
          /\ vector_store' = vector_store
          /\ metadata_store' = metadata_store
          /\ disk_index' = disk_index
          /\ disk_meta' = disk_meta
          /\ disk_index'.state = disk_meta'.state
          /\ disk_index'.state # "corrupt"]_vars

(***************************************************************************)
(* Claims about concurrent calls, checked under SpecConc.                  *)
(***************************************************************************)
\* thread t's chunks are all among docs
HoldsChunksOf(docs, t) ==
    Cardinality({i \in 1..Len(docs) :
                    docs[i].metadata["report_id"] = th[t].report_id})
      = Len(th[t].chunks)

\* C9: once two concurrent add_report calls have both returned, the index, the
\* metadata map and the persisted files hold the chunks and the metadata of
\* both reports
C9_NoLostUpdate ==
    (\A t \in Threads : th[t].pc = "done") =>
        \A t \in Threads :
            /\ HoldsChunksOf(vector_store.docs, t)
            /\ th[t].report_id \in DOMAIN metadata_store
            /\ disk_index.state = "ok" /\ HoldsChunksOf(disk_index.data, t)
            /\ disk_meta.state = "ok" /\ th[t].report_id \in DOMAIN disk_meta.data

\* the chunks the threads of D add
RECURSIVE ChunkCount(_)
ChunkCount(D) ==
    IF D = {} THEN 0
    ELSE LET t == CHOOSE x \in D : TRUE
         IN  Len(th[t].chunks) + ChunkCount(D \ {t})

\* C10: a get_stats call that runs beside add_report calls sees each call's
\* effect whole or not at all: the reports listed are those of some of the
\* calls and the chunks counted are exactly those calls' chunks
C10_NoTornRead ==
    ret.op = "get_stats" =>
        \E D \in SUBSET {t \in Threads : th[t].pc # "idle"} :
            /\ ret.result.reports = {th[t].report_id : t \in D}
            /\ ret.result.total_chunks = ChunkCount(D)

(***************************************************************************)
(* Claims about persistence and the frame of the calls, checked under      *)
(* SpecDurable.                                                            *)
(***************************************************************************)
\* the last call was an add_report or a delete_report of a known id, and it
\* returned
MutationReturned ==
    \/ ret.op = "add_report" /\ ~ret.raised
    \/ ret.op = "delete_report" /\ ret.result = "marked_for_deletion"

\* C11: when add_report or delete_report of a known id returns, the persisted
\* index is the in-memory one, the persisted metadata map is the in-memory one,
\* and loading the files gives back exactly that state
C11_DurableOnReturn ==
    MutationReturned =>
        /\ disk_index = Saved(vector_store.docs)
        /\ disk_meta = Saved(metadata_store)
        /\ _load_vector_store(disk_index, disk_meta)
             = [vector_store |-> vector_store, metadata_store |-> metadata_store]

\* C11's case: a delete_report of a known id has returned with chunks in the
\* index
C11_Witness ==
    /\ ret.op = "delete_report"
    /\ ret.result = "marked_for_deletion"
    /\ Len(vector_store.docs) >= 2

\* C12: started with an index file that is missing or unreadable and a
\* metadata file that is readable, the store has an empty index and the
\* metadata map read from the file
C12_MetadataLoadedWithoutIndex ==
    (ret.op = "init" /\ disk_index.state # "ok" /\ disk_meta.state = "ok") =>
        /\ vector_store = NoStore
        /\ metadata_store = disk_meta.data

\* C12's case: a start with an unreadable index beside a metadata file that
\* holds an entry
C12_Witness ==
    /\ ret.op = "init"
    /\ disk_index.state = "corrupt"
    /\ disk_meta.state = "ok"
    /\ disk_meta.data # EmptyDict

\* C13: construction completes for every state of the two files, and when
\* either of them cannot be read the store has no chunks and every search
\* returns the empty sequence
C13_UnreadableMeansEmpty ==
    (ret.op = "init" /\ (disk_index.state # "ok" \/ disk_meta.state # "ok")) =>
        /\ get_stats(vector_store, metadata_store).total_chunks = 0
        /\ \A query \in Queries, k \in Ks : search(vector_store, query, k, EmptyDict) = <<>>

\* C13's case: a start with a readable index and no metadata file
C13_Witness ==
    /\ ret.op = "init"
    /\ disk_index.state = "ok"
    /\ disk_meta.state = "missing"

\* C14: a delete_report(d) of an indexed d takes d out of get_stats().reports
\* and lowers total_reports by one, and leaves the stored chunks and
\* total_chunks as they were
C14_DeleteFrame ==
    [][(ret'.op = "delete_report" /\ ret'.result = "marked_for_deletion") =>
          LET d == ret'.report_id
              before == get_stats(vector_store, metadata_store)
              after == get_stats(vector_store', metadata_store')
          IN  /\ d \in before.reports
              /\ d \notin after.reports
              /\ after.reports = before.reports \ {d}
              /\ after.total_reports = before.total_reports - 1
              /\ vector_store' = vector_store
              /\ after.total_chunks = before.total_chunks
              /\ report_chunks(vector_store', d) = report_chunks(vector_store, d)]_vars

\* C14's case: d was deleted, its chunks are still stored and another report
\* is still listed
C14_Witness ==
    /\ ret.op = "delete_report"
    /\ ret.result = "marked_for_deletion"
    /\ ret.report_id \notin DOMAIN metadata_store
    /\ metadata_store # EmptyDict
    /\ \E i \in 1..Len(vector_store.docs) :
            vector_store.docs[i].metadata.report_id = ret.report_id

\* the documents of old are the first documents of new, unchanged
IsPrefix(old, new) ==
    /\ Len(old) <= Len(new)
    /\ \A i \in 1..Len(old) : new[i] = old[i]

\* every stored chunk is among the results of a search over the whole index
StoredChunksSearchable ==
    \A query \in Queries :
        LET hits == search(vector_store, query, MaxChunks, EmptyDict)
        IN  \A i \in 1..Len(vector_store.docs) :
               \E r \in DOMAIN hits :
                  /\ hits[r].content = vector_store.docs[i].page_content
                  /\ hits[r].metadata = vector_store.docs[i].metadata

\* C15: every call on the store keeps the chunks already stored, unchanged and
\* within reach of a search, so total_chunks does not decrease; an add_report
\* that returns has grown total_chunks by exactly chunks_added
C15_AddKeepsChunks ==
    /\ []StoredChunksSearchable
    /\ [][ret'.op # "init" =>
             /\ IsPrefix(vector_store.docs, vector_store'.docs)
             /\ get_stats(vector_store', metadata_store').total_chunks
                   >= get_stats(vector_store, metadata_store).total_chunks
             /\ (ret'.op = "add_report" /\ ~ret'.raised) =>
                   Len(vector_store'.docs)
                      = Len(vector_store.docs) + ret'.result.chunks_added]_vars

\* C15's case: an add_report returned on an index that already held chunks
C15_Witness ==
    /\ ret.op = "add_report"
    /\ ~ret.raised
    /\ ret.result.chunks_added >= 1
    /\ Len(vector_store.docs) > ret.result.chunks_added

(***************************************************************************)
(* Claims about the results of search, checked under SpecQuery.            *)
(***************************************************************************)
\* C16: every similarity_score that search returns lies in [0,1]
C16_ScoreInUnitInterval ==
    ret.op = "search" =>
        \A j \in 1..Len(ret.result) :
            /\ 0 <= ret.result[j].similarity_score
            /\ ret.result[j].similarity_score <= 1

\* C16's failing case: a chunk whose embedding is not close to the query's is
\* returned
C16_Witness ==
    /\ ret.op = "search"
    /\ \E j \in 1..Len(ret.result) : ret.result[j].similarity_score < 0

\* C17: search returns at most k results, in order of non-increasing
\* similarity_score
C17_AtMostKSorted ==
    ret.op = "search" =>
        /\ Len(ret.result) <= ret.k
        /\ \A j \in 1..(Len(ret.result) - 1) :
              ret.result[j].similarity_score >= ret.result[j + 1].similarity_score

\* C17's case: an index of more than k chunks at different distances from the
\* query, and k = 2 results of different similarity
C17_Witness ==
    /\ ret.op = "search"
    /\ ret.k = 2
    /\ Len(vector_store.docs) > 2
    /\ Len(ret.result) = 2
    /\ ret.result[1].similarity_score > ret.result[2].similarity_score

\* C18: every result of search carries the filter's value on each key of the
\* filter, and a filter that no indexed chunk matches gives the empty sequence
C18_ResultsSatisfyFilter ==
    ret.op = "search" =>
        /\ \A j \in 1..Len(ret.result) :
              \A key \in DOMAIN ret.filter_by :
                 /\ key \in DOMAIN ret.result[j].metadata
                 /\ ret.result[j].metadata[key] = ret.filter_by[key]
        /\ MatchingDocs(ret.filter_by) = {} => ret.result = <<>>

\* C18's case: a filtered search over an index that holds chunks of another
\* report returns a result
C18_Witness ==
    /\ ret.op = "search"
    /\ ret.filter_by # EmptyDict
    /\ ret.result # <<>>
    /\ MatchingDocs(ret.filter_by) # 1..Len(vector_store.docs)

(***************************************************************************)
(* Claims about answer_question, checked under SpecQA.                     *)
(***************************************************************************)
\* C19: for every report_ids argument the sources and the context blocks of
\* answer_question are in ranked order: no source has a higher similarity than
\* the one before it, block i is about source i, and the rank printed in block
\* i is i
C19_SourcesRanked ==
    (ret.op = "answer_question" /\ ~ret.out.raised) =>
        LET sources == ret.out.result.sources
            context == ret.out.context
        IN  /\ \A i \in 1..(Len(sources) - 1) :
                  sources[i + 1].similarity <= sources[i].similarity
            /\ Len(context) = Len(sources)
            /\ \A i \in 1..Len(context) :
                  /\ context[i].source = i
                  /\ context[i].relevance = 100 * sources[i].similarity
                  /\ context[i].report_id = sources[i].report_id

\* C19's failing case: a question scoped to several reports, answered from a
\* chunk of each, the first less similar than the second
C19_Witness ==
    /\ ret.op = "answer_question"
    /\ Len(ret.report_ids) > 1
    /\ ~ret.out.raised
    /\ Len(ret.out.result.sources) = 2
    /\ ret.out.result.sources[1].report_id # ret.out.result.sources[2].report_id
    /\ ret.out.result.sources[1].similarity < ret.out.result.sources[2].similarity

\* C20: when the retrieval gives no document, answer_question returns the
\* result with no sources and confidence 0.0, raises nothing and does not
\* invoke the LLM
C20_NoResultsSentinel ==
    (ret.op = "answer_question" /\ ret.out.relevant_docs = <<>>) =>
        /\ ~ret.out.raised
        /\ ~ret.out.llm_invoked
        /\ ret.out.result.answer = NoInformation
        /\ ret.out.result.sources = <<>>
        /\ ret.out.result.confidence = 0

\* C20's case: the index holds chunks, the report_ids scope excludes them all,
\* and the LLM would have failed had it been invoked
C20_Witness ==
    /\ ret.op = "answer_question"
    /\ vector_store.docs # <<>>
    /\ ret.report_ids # <<>>
    /\ ret.out.relevant_docs = <<>>
    /\ ret.llm_fails

(***************************************************************************)
(* Claims about the HTTP layer, checked under SpecApi.                     *)
(***************************************************************************)
\* C21: over uploads, deletes and process restarts the report ids of
\* reports_db are the ids that /stats lists for the vector store, so every
\* report the index counts can be looked up and deleted through the API
C21_ApiKnowsIndexedReports ==
    /\ DOMAIN reports_db = get_stats(vector_store, metadata_store).reports
    /\ Cardinality(DOMAIN reports_db)
          = get_stats(vector_store, metadata_store).total_reports

\* C21's failing case: the process has restarted, the vector store lists a
\* report, and reports_db is empty
C21_Witness ==
    /\ http.op = "start"
    /\ reports_db = EmptyDict
    /\ get_stats(vector_store, metadata_store).reports # {}

\* C22: an upload whose extension is not .pdf, .docx or .txt is answered with
\* status 400 and leaves reports_db, the upload directory and the vector store
\* as they were
C22_UnsupportedIs400 ==
    [][(http'.op = "upload" /\ file_ext_of(http'.filename) \notin allowed_extensions) =>
          /\ http'.status = 400
          /\ reports_db' = reports_db
          /\ upload_dir' = upload_dir
          /\ vector_store' = vector_store
          /\ metadata_store' = metadata_store
          /\ disk_index' = disk_index
          /\ disk_meta' = disk_meta]_vars

\* C22's failing case: with a report already uploaded, an upload of a file
\* with an unsupported extension was answered with status 500
C22_Witness ==
    /\ http.op = "upload"
    /\ file_ext_of(http.filename) \notin allowed_extensions
    /\ http.status = 500
    /\ reports_db # EmptyDict

====
